---------------------------- MODULE Spec2Model ----------------------------
(***************************************************************************)
(* fcnt: count the files, directories and storage size beneath each root.  *)
(* A model of src/main.rs: CmdLineArgs::get_directories, Counter, Walker   *)
(* and the loop of main, run against a small file system with symbolic    *)
(* links, hard links, several devices and failing directories or files.    *)
(***************************************************************************)
EXTENDS Integers, Sequences, FiniteSets, TLC

(***************************************************************************)
(* Bounds of the model.                                                    *)
(***************************************************************************)
\* symbolic links the kernel follows in one path lookup before it answers
\* ELOOP (32 on macOS, 40 on Linux; scaled down)
MAXSYMLINKS == 2
\* directories or files that fail in one run
MaxFaults == 1
\* workers of the parallel walker
MaxWorkers == 2
\* file_size is applied to every size 0 .. MaxSize and block size 1 .. MaxBlk
MaxSize == 12
MaxBlk == 5

(***************************************************************************)
(* The file system.  An object is a directory, a regular file, a symbolic  *)
(* link or something else (fifo, socket, device).  Object 0 is the         *)
(* directory the command-line arguments are looked up in.                  *)
(***************************************************************************)
NoObj == 0 - 1
TopObj == 0

Dir(ents) ==
    [kind |-> "dir", ents |-> ents, target |-> NoObj,
     dev |-> 0, ino |-> 0, st_size |-> 0, st_blksize |-> 0]
File(dev, ino, sz, blksz) ==
    [kind |-> "file", ents |-> {}, target |-> NoObj,
     dev |-> dev, ino |-> ino, st_size |-> sz, st_blksize |-> blksz]
Link(target) ==
    [kind |-> "symlink", ents |-> {}, target |-> target,
     dev |-> 0, ino |-> 0, st_size |-> 0, st_blksize |-> 0]
Other ==
    [kind |-> "other", ents |-> {}, target |-> NoObj,
     dev |-> 0, ino |-> 0, st_size |-> 0, st_blksize |-> 0]

\* a command line: CmdLineArgs as clap fills it
Cmd(directories, all_files, count_dirs, count_size) ==
    [directories |-> directories, all_files |-> all_files,
     count_dirs |-> count_dirs, count_size |-> count_size]
\* fcnt with no flag and the given directories
Plain(directories) == Cmd(directories, FALSE, FALSE, FALSE)

\* two files (100 and 5000 bytes) and one subdirectory holding a 1-byte file
TreeScenario ==
    [obj |-> <<Dir({<<"r", 1>>}),
               Dir({<<"a", 2>>, <<"b", 3>>, <<"d", 4>>}),
               File(1, 2, 100, 4096), File(1, 3, 5000, 4096),
               Dir({<<"c", 5>>}), File(1, 5, 1, 4096)>>,
     args |-> {Plain(<<"r">>), Cmd(<<"r">>, FALSE, FALSE, TRUE),
               Cmd(<<"r">>, FALSE, TRUE, TRUE)}]

\* two roots sharing a hard-linked file; "t" is a file given as an argument
TreeHardLinks ==
    [obj |-> <<Dir({<<"r", 1>>, <<"s", 2>>, <<"t", 4>>}),
               Dir({<<"a", 3>>, <<"b", 3>>}),
               Dir({<<"c", 3>>, <<"e", 4>>}),
               File(1, 7, 100, 4096), File(1, 8, 0, 4096)>>,
     args |-> {Plain(<<"r", "s">>), Plain(<<"s", "r">>), Plain(<<"t", "r">>),
               Plain(<<"t">>), Plain(<<>>)}]

\* a symbolic link to a sibling directory
TreeLinkToDir ==
    [obj |-> <<Dir({<<"r", 1>>}),
               Dir({<<"d", 2>>, <<"ld", 3>>}),
               Dir({<<"f", 4>>}), Link(2), File(1, 4, 4096, 4096)>>,
     args |-> {Plain(<<"r">>)}]

\* symbolic links to a seen file, to an unseen file and to nothing
TreeLinkToFile ==
    [obj |-> <<Dir({<<"r", 1>>, <<"o", 5>>}),
               Dir({<<"f", 2>>, <<"lf", 3>>, <<"lo", 4>>, <<"lx", 6>>}),
               File(1, 2, 10, 512), Link(2), Link(5),
               File(1, 9, 700, 512), Link(NoObj)>>,
     args |-> {Plain(<<"r">>)}]

\* a symbolic link to an ancestor of the link
TreeLinkToAncestor ==
    [obj |-> <<Dir({<<"r", 1>>}),
               Dir({<<"up", 2>>, <<"f", 3>>}),
               Link(1), File(1, 3, 1, 4096)>>,
     args |-> {Plain(<<"r">>)}]

\* two mounted devices whose files carry the same inode number
TreeTwoDevices ==
    [obj |-> <<Dir({<<"r", 1>>}),
               Dir({<<"m", 2>>, <<"n", 3>>}),
               Dir({<<"x", 4>>}), Dir({<<"y", 5>>}),
               File(1, 5, 1, 4096), File(2, 5, 5000, 4096)>>,
     args |-> {Plain(<<"r">>), Plain(<<"r", "r">>)}]

\* nested directories and an entry that is neither file, directory nor link
TreeNested ==
    [obj |-> <<Dir({<<"r", 1>>, <<"q", 6>>}),
               Dir({<<"d", 2>>, <<"p", 5>>}),
               Dir({<<"e", 3>>}), Dir({<<"g", 4>>}),
               File(1, 4, 4097, 4096), Other, Dir({})>>,
     args |-> {Plain(<<"r", "q">>), Plain(<<"q", "r">>)}]

\* a hidden file, a hidden directory and a visible file
TreeHidden ==
    [obj |-> <<Dir({<<"r", 1>>}),
               Dir({<<".h", 2>>, <<".hd", 3>>, <<"v", 4>>}),
               File(1, 2, 600, 512), Dir({}), File(1, 4, 1, 512)>>,
     args |-> {Plain(<<"r">>), Cmd(<<"r">>, TRUE, FALSE, TRUE)}]

Trees ==
    {"Scenario", "HardLinks", "LinkToDir", "LinkToFile", "LinkToAncestor",
     "TwoDevices", "Nested", "Hidden"}

Tree(name) ==
    CASE name = "Scenario" -> TreeScenario
      [] name = "HardLinks" -> TreeHardLinks
      [] name = "LinkToDir" -> TreeLinkToDir
      [] name = "LinkToFile" -> TreeLinkToFile
      [] name = "LinkToAncestor" -> TreeLinkToAncestor
      [] name = "TwoDevices" -> TreeTwoDevices
      [] name = "Nested" -> TreeNested
      [] name = "Hidden" -> TreeHidden

VARIABLES
    fs,            \* the file system: the name of one of the Trees
    faults,        \* the objects that fail: noopen, noread, nometa
    args,          \* main: the parsed command line (CmdLineArgs)
    directories,   \* main: the roots returned by get_directories
    ri,            \* main: index of the root being walked
    pc,            \* main: position in the loop
    counter,       \* main: the Counter of the current root
    dirs,          \* Walker.dirs: the stack of pending directories
    reader,        \* Walker.reader: what is left of the open directory
    entry,         \* main: the entry next() returned last
    results,       \* the Counters printed so far, one per finished root
    opened,        \* paths read_dir has opened for the current root
    reopened,      \* paths read_dir has opened more than once
    yielded,       \* entries the Walker has yielded for the current root
    reyielded,     \* entries the Walker has yielded more than once
    parPc,         \* parallel walker: "off", "run" or "done"
    workers,       \* parallel walker: per worker, the item held and what is
                   \* left of its directory
    queue,         \* parallel walker: the shared queue of Work Items
    outstanding,   \* parallel walker: items queued or held
    parCounters,   \* parallel walker: one Counter per root
    calc           \* a pure function applied on its own: op, in, out

parVars == <<parPc, workers, queue, outstanding, parCounters>>

vars == <<fs, faults, args, directories, ri, pc, counter, dirs, reader, entry,
          results, opened, reopened, yielded, reyielded, parVars, calc>>

Objects(t) == 0 .. (Len(Tree(t).obj) - 1)
Obj(o) == Tree(fs).obj[o + 1]

(***************************************************************************)
(* Path lookup, as the kernel does it for stat and lstat.                  *)
(***************************************************************************)
Lookup(d, name) ==
    IF \E e \in Obj(d).ents : e[1] = name
    THEN (CHOOSE e \in Obj(d).ents : e[1] = name)[2]
    ELSE NoObj

\* follow symbolic links from object o, n links followed so far
RECURSIVE Deref(_, _)
Deref(o, n) ==
    IF o = NoObj THEN <<NoObj, n>>
    ELSE IF Obj(o).kind # "symlink" THEN <<o, n>>
    ELSE IF n >= MAXSYMLINKS THEN <<NoObj, n>>
    ELSE Deref(Obj(o).target, n + 1)

\* r is bound as a value, so that the directory reached and the link count
\* are computed once for the rest of the path
RECURSIVE Namei(_, _, _, _, _)
Namei(path, i, cur, n, follow) ==
    LET child == Lookup(cur, path[i])
    IN  IF child = NoObj THEN NoObj
        ELSE IF i = Len(path)
             THEN IF follow THEN Deref(child, n)[1] ELSE child
             ELSE CHOOSE o \in {IF r[1] = NoObj \/ Obj(r[1]).kind # "dir"
                                THEN NoObj
                                ELSE Namei(path, i + 1, r[1], r[2], follow) :
                                r \in {Deref(child, n)}} : TRUE

stat(path) == IF path = <<>> THEN TopObj ELSE Namei(path, 1, TopObj, 0, TRUE)
lstat(path) == IF path = <<>> THEN TopObj ELSE Namei(path, 1, TopObj, 0, FALSE)

is_dir(path) == stat(path) # NoObj /\ Obj(stat(path)).kind = "dir"
is_file(path) == stat(path) # NoObj /\ Obj(stat(path)).kind = "file"
is_symlink(path) == lstat(path) # NoObj /\ Obj(lstat(path)).kind = "symlink"

\* fs::read_dir: the entries of the directory, in no particular order
read_dir(path) ==
    LET o == stat(path)
    IN  IF o = NoObj \/ Obj(o).kind # "dir" \/ o \in faults.noopen
        THEN [ok |-> FALSE, items |-> {}, err |-> FALSE]
        ELSE [ok |-> TRUE,
              items |-> {Append(path, e[1]) : e \in Obj(o).ents},
              err |-> o \in faults.noread]

\* DirEntry::metadata: the entry itself, symbolic links not followed
metadata(path) ==
    LET o == lstat(path)
    IN  IF o = NoObj \/ o \in faults.nometa
        THEN [ok |-> FALSE, st_ino |-> 0, st_size |-> 0, st_blksize |-> 1]
        ELSE [ok |-> TRUE, st_ino |-> Obj(o).ino, st_size |-> Obj(o).st_size,
              st_blksize |-> Obj(o).st_blksize]

(***************************************************************************)
(* CmdLineArgs::get_directories                                            *)
(***************************************************************************)
get_directories(self) ==
    IF self.directories = <<>> THEN <<<<"r">>>>
    ELSE SelectSeq([i \in 1 .. Len(self.directories) |->
                       <<self.directories[i]>>], is_dir)

(***************************************************************************)
(* Counter                                                                 *)
(***************************************************************************)
Counter_new == [n_files |-> 0, n_dirs |-> 0, size |-> 0, inodes |-> {}]

\* ceil(sz / blksz) of two non-negative numbers
Ceil(sz, blksz) == (sz + blksz - 1) \div blksz

\* file_size with the quotient truncated instead of rounded up
file_size_truncated(meta) == meta.st_blksize * (meta.st_size \div meta.st_blksize)
file_size(meta) == meta.st_blksize * Ceil(meta.st_size, meta.st_blksize)

(***************************************************************************)
(* Counter::readable_size.  A u64 is written as seven digits of base 1024, *)
(* least significant first, the seventh below 16; "as f64" rounds it to a  *)
(* mantissa of 53 bits, ties to even.  The result is the number that is    *)
(* formatted (its whole part and its fraction in digits of base 1024) and  *)
(* the unit; EmptyString is the String::new() the function starts with.    *)
(***************************************************************************)
SZ_UNIT == <<"B", "K", "M", "G", "T", "P", "E">>
F64Mantissa == 53
Base == 1024
BaseBits == 10
EmptyString == [whole |-> 0, frac |-> <<>>, unit |-> ""]

Bit(d, i) == (d[(i \div BaseBits) + 1] \div (2 ^ (i % BaseBits))) % 2

BitLen(d) ==
    LET S == {i \in 0 .. (BaseBits * Len(d) - 1) : Bit(d, i) = 1}
    IN  IF S = {} THEN 0 ELSE 1 + CHOOSE i \in S : \A j \in S : j <= i

\* d with bits 0 .. r - 1 cleared
ClearLow(d, r) ==
    [k \in 1 .. Len(d) |->
        IF BaseBits * k <= r THEN 0
        ELSE IF BaseBits * (k - 1) >= r THEN d[k]
        ELSE d[k] - (d[k] % (2 ^ (r - BaseBits * (k - 1))))]

\* d plus amount at digit k, the carry taken to the digits above
RECURSIVE AddAt(_, _, _)
AddAt(d, k, amount) ==
    LET v == d[k] + amount
    IN  IF k = Len(d) \/ v < Base THEN [d EXCEPT ![k] = v]
        ELSE AddAt([d EXCEPT ![k] = v - Base], k + 1, 1)

\* self.size as f64
ToF64(d) ==
    LET r == BitLen(d) - F64Mantissa
    IN  IF r <= 0 THEN d
        ELSE LET half == Bit(d, r - 1) = 1
                 sticky == \E i \in 0 .. (r - 2) : Bit(d, i) = 1
                 odd == Bit(d, r) = 1
             IN  IF half /\ (sticky \/ odd)
                 THEN AddAt(ClearLow(d, r), (r \div BaseBits) + 1,
                            2 ^ (r % BaseBits))
                 ELSE ClearLow(d, r)

\* sz >= 1024.0
AtLeastBase(int) == \E k \in 2 .. Len(int) : int[k] # 0

\* sz / 1024.0: whole part and fraction
DivBase(int) == [k \in 1 .. Len(int) |-> IF k < Len(int) THEN int[k + 1] ELSE 0]

\* sz = 1024.0
IsBase(int, frac) ==
    /\ int[1] = 0 /\ int[2] = 1
    /\ \A k \in 3 .. Len(int) : int[k] = 0
    /\ \A k \in 1 .. Len(frac) : frac[k] = 0

\* the loop over the units with "sz > 1024.0" for "sz >= 1024.0"
RECURSIVE units_loop_strict(_, _, _)
units_loop_strict(int, frac, u) ==
    IF u > Len(SZ_UNIT) THEN EmptyString
    ELSE IF AtLeastBase(int) /\ ~IsBase(int, frac)
    THEN units_loop_strict(DivBase(int), <<int[1]>> \o frac, u + 1)
    ELSE [whole |-> IF IsBase(int, frac) THEN Base ELSE int[1],
          frac |-> frac, unit |-> SZ_UNIT[u]]

\* the loop over the units, sz being int plus frac, u the unit reached
RECURSIVE units_loop(_, _, _)
units_loop(int, frac, u) ==
    IF u > Len(SZ_UNIT) THEN EmptyString
    ELSE IF AtLeastBase(int)
    THEN units_loop(DivBase(int), <<int[1]>> \o frac, u + 1)
    ELSE [whole |-> int[1], frac |-> frac, unit |-> SZ_UNIT[u]]

\* readable_size with "sz > 1024.0" for "sz >= 1024.0"
readable_size_strict(size) == units_loop_strict(ToF64(size), <<>>, 1)
readable_size(size) == units_loop(ToF64(size), <<>>, 1)

\* count with the size added for every alias of a file
count_sizeOfEveryAlias(c, path) ==
    IF is_symlink(path)
    THEN [c EXCEPT !.n_files = @ + 1]
    ELSE IF is_file(path)
    THEN LET meta == metadata(path)
         IN  IF ~meta.ok THEN c
             ELSE [c EXCEPT !.inodes = @ \cup {meta.st_ino},
                            !.n_files = @ + 1,
                            !.size = @ + file_size(meta)]
    ELSE IF is_dir(path)
    THEN [c EXCEPT !.n_dirs = @ + 1]
    ELSE c

\* count with a file counted although its metadata cannot be read
count_metadataErrorCounted(c, path) ==
    IF is_symlink(path)
    THEN [c EXCEPT !.n_files = @ + 1]
    ELSE IF is_file(path)
    THEN LET meta == metadata(path)
         IN  IF ~meta.ok THEN [c EXCEPT !.n_files = @ + 1]
             ELSE IF meta.st_ino \notin c.inodes
             THEN [c EXCEPT !.inodes = @ \cup {meta.st_ino},
                            !.n_files = @ + 1,
                            !.size = @ + file_size(meta)]
             ELSE [c EXCEPT !.n_files = @ + 1]
    ELSE IF is_dir(path)
    THEN [c EXCEPT !.n_dirs = @ + 1]
    ELSE c

\* count with is_file tested before is_symlink: a link to a file is followed
count_symlinkFollowed(c, path) ==
    IF is_file(path)
    THEN LET o == stat(path)
         IN  IF Obj(o).ino \notin c.inodes
             THEN [c EXCEPT !.inodes = @ \cup {Obj(o).ino},
                            !.n_files = @ + 1,
                            !.size = @ + Obj(o).st_blksize
                                       * Ceil(Obj(o).st_size, Obj(o).st_blksize)]
             ELSE [c EXCEPT !.n_files = @ + 1]
    ELSE IF is_symlink(path)
    THEN [c EXCEPT !.n_files = @ + 1]
    ELSE IF is_dir(path)
    THEN [c EXCEPT !.n_dirs = @ + 1]
    ELSE c

count(c, path) ==
    IF is_symlink(path)
    THEN [c EXCEPT !.n_files = @ + 1]
    ELSE IF is_file(path)
    THEN LET meta == metadata(path)
         IN  IF ~meta.ok THEN c
             ELSE IF meta.st_ino \notin c.inodes
             THEN [c EXCEPT !.inodes = @ \cup {meta.st_ino},
                            !.n_files = @ + 1,
                            !.size = @ + file_size(meta)]
             ELSE [c EXCEPT !.n_files = @ + 1]
    ELSE IF is_dir(path)
    THEN [c EXCEPT !.n_dirs = @ + 1]
    ELSE c

(***************************************************************************)
(* Walker and main                                                         *)
(***************************************************************************)
NoCalc == [op |-> "none", in |-> <<>>, out |-> <<>>]
NoReader == [ok |-> FALSE, items |-> {}, err |-> FALSE]
NoEntry == <<>>

Faults(t) ==
    LET D == {o \in Objects(t) \ {TopObj} : Tree(t).obj[o + 1].kind = "dir"}
        F == {o \in Objects(t) : Tree(t).obj[o + 1].kind = "file"}
    IN  {f \in [noopen : SUBSET D, noread : SUBSET D, nometa : SUBSET F] :
            Cardinality(f.noopen) + Cardinality(f.noread)
                + Cardinality(f.nometa) <= MaxFaults}

Init ==
    /\ fs \in Trees
    /\ faults \in Faults(fs)
    /\ args \in Tree(fs).args
    /\ directories = get_directories(args)
    /\ ri = 1
    /\ pc = IF directories = <<>> THEN "exit" ELSE "new"
    /\ counter = Counter_new
    /\ dirs = <<>>
    /\ reader = NoReader
    /\ entry = NoEntry
    /\ results = <<>>
    /\ opened = {}
    /\ reopened = {}
    /\ yielded = {}
    /\ reyielded = {}
    /\ parPc = "off"
    /\ workers = <<>>
    /\ queue = {}
    /\ outstanding = 0
    /\ parCounters = <<>>
    /\ calc = NoCalc

\* Walker::new with one Counter made before the loop and kept for every root
WalkerNew_keepsCounter ==
    /\ pc = "new"
    /\ LET dirpath == directories[ri]
           rd == read_dir(dirpath)
       IN  /\ counter' = counter
           /\ entry' = NoEntry
           /\ yielded' = {}
           /\ reyielded' = {}
           /\ reopened' = {}
           /\ IF is_dir(dirpath) /\ rd.ok
              THEN /\ dirs' = <<dirpath>>
                   /\ reader' = rd
                   /\ opened' = {dirpath}
                   /\ pc' = "next"
              ELSE /\ dirs' = <<>>
                   /\ reader' = NoReader
                   /\ opened' = {}
                   /\ pc' = "panic"
    /\ UNCHANGED <<calc, fs, faults, args, directories, ri, results,
                   parVars>>

\* main: Counter::new() and Walker::new(dir) for the next root
WalkerNew ==
    /\ pc = "new"
    /\ LET dirpath == directories[ri]
           rd == read_dir(dirpath)
       IN  /\ counter' = Counter_new
           /\ entry' = NoEntry
           /\ yielded' = {}
           /\ reyielded' = {}
           /\ reopened' = {}
           /\ IF is_dir(dirpath) /\ rd.ok
              THEN /\ dirs' = <<dirpath>>
                   /\ reader' = rd
                   /\ opened' = {dirpath}
                   /\ pc' = "next"
              ELSE /\ dirs' = <<>>
                   /\ reader' = NoReader
                   /\ opened' = {}
                   /\ pc' = "panic"
    /\ UNCHANGED <<calc, fs, faults, args, directories, ri, results,
                   parVars>>

\* a push that is forgotten
Push_lost(s, path) == s
Push(s, path) == Append(s, path)
\* a pop that leaves the directory on the stack
Pop_keep(s) == s
Pop(s) == SubSeq(s, 1, Len(s) - 1)

\* Walker::next: the open directory has another entry
NextEntry ==
    /\ pc = "next"
    /\ \E e \in reader.items :
          /\ reader' = [reader EXCEPT !.items = @ \ {e}]
          /\ dirs' = IF is_dir(e) THEN Push(dirs, e) ELSE dirs
          /\ entry' = e
          /\ yielded' = yielded \cup {e}
          /\ reyielded' = IF e \in yielded THEN reyielded \cup {e} ELSE reyielded
    /\ pc' = "count"
    /\ UNCHANGED <<calc, fs, faults, args, directories, ri, counter, results, opened,
                   reopened,
                   parVars>>

\* Walker::next: reading the open directory fails
NextError ==
    /\ pc = "next"
    /\ reader.err
    /\ pc' = "panic"
    /\ UNCHANGED <<calc, fs, faults, args, directories, ri, counter, dirs, reader, entry,
                   results, opened, reopened, yielded, reyielded,
                   parVars>>

\* Walker::next: the open directory is exhausted, a pending one is opened
NextPop ==
    /\ pc = "next"
    /\ reader.items = {} /\ ~reader.err
    /\ dirs # <<>>
    /\ LET path == dirs[Len(dirs)]
           rd == read_dir(path)
       IN  /\ dirs' = Pop(dirs)
           /\ IF rd.ok
              THEN /\ reader' = rd
                   /\ opened' = opened \cup {path}
                   /\ reopened' = IF path \in opened
                                  THEN reopened \cup {path} ELSE reopened
                   /\ pc' = "next"
              ELSE /\ reader' = NoReader
                   /\ UNCHANGED <<opened, reopened>>
                   /\ pc' = "panic"
    /\ UNCHANGED <<calc, fs, faults, args, directories, ri, counter, entry, results,
                   yielded, reyielded,
                   parVars>>

\* Walker::next: nothing open, nothing pending
NextNone ==
    /\ pc = "next"
    /\ reader.items = {} /\ ~reader.err
    /\ dirs = <<>>
    /\ pc' = "print"
    /\ entry' = NoEntry
    /\ UNCHANGED <<calc, fs, faults, args, directories, ri, counter, dirs, reader,
                   results, opened, reopened, yielded, reyielded,
                   parVars>>

\* main: counter.count(entry)
Count ==
    /\ pc = "count"
    /\ counter' = count(counter, entry)
    /\ pc' = "next"
    /\ UNCHANGED <<calc, fs, faults, args, directories, ri, dirs, reader, entry, results,
                   opened, reopened, yielded, reyielded,
                   parVars>>

\* main: print the Counter of the finished root, go on with the next root
PrintCounter ==
    /\ pc = "print"
    /\ results' = Append(results, [root |-> directories[ri],
                                   n_files |-> counter.n_files,
                                   n_dirs |-> counter.n_dirs,
                                   size |-> counter.size])
    /\ ri' = ri + 1
    /\ pc' = IF ri < Len(directories) THEN "new" ELSE "done"
    /\ UNCHANGED <<calc, fs, faults, args, directories, counter, dirs, reader, entry,
                   opened, reopened, yielded, reyielded,
                   parVars>>

Next ==
    \/ WalkerNew
    \/ NextEntry
    \/ NextError
    \/ NextPop
    \/ NextNone
    \/ Count
    \/ PrintCounter

Spec == Init /\ [][Next]_vars

\* the loop of main runs as long as it can
FairSpec == Spec /\ WF_vars(Next)

(***************************************************************************)
(* Counter::file_size and Counter::readable_size applied on their own to   *)
(* a range of inputs, beside the runs of main.                             *)
(***************************************************************************)
FileSizeInputs ==
    [st_size : 0 .. MaxSize, st_blksize : 1 .. MaxBlk]
        \cup [st_size : {0, 1, 100, 511, 512, 4095, 4096, 4097, 5000, 8192},
              st_blksize : {512, 4096}]

\* 1023, 1434, 15926, 53589793, 238462643383, 279502884197169 and 2^64 - 1
TestSizes ==
    {<<1023, 0, 0, 0, 0, 0, 0>>, <<410, 1, 0, 0, 0, 0, 0>>,
     <<566, 15, 0, 0, 0, 0, 0>>, <<801, 109, 51, 0, 0, 0, 0>>,
     <<183, 715, 87, 222, 0, 0, 0>>, <<817, 20, 354, 211, 254, 0, 0>>,
     <<1023, 1023, 1023, 1023, 1023, 1023, 15>>}

ReadableSizeInputs ==
    TestSizes \cup
    {<<d1, d2, d3, d4, d5, d6, d7>> :
        d1 \in {0, 1, 959, 960, 1023}, d2 \in {0, 1, 1023},
        d3 \in {0, 1023}, d4 \in {0, 1023}, d5 \in {0, 1023},
        d6 \in {0, 1, 511, 1023}, d7 \in {0, 1, 15}}

\* nothing of main runs
InitPure ==
    /\ fs = "Scenario"
    /\ faults = [noopen |-> {}, noread |-> {}, nometa |-> {}]
    /\ args = Plain(<<>>)
    /\ directories = <<>>
    /\ ri = 1
    /\ pc = "exit"
    /\ counter = Counter_new
    /\ dirs = <<>>
    /\ reader = NoReader
    /\ entry = NoEntry
    /\ results = <<>>
    /\ opened = {}
    /\ reopened = {}
    /\ yielded = {}
    /\ reyielded = {}
    /\ parPc = "off"
    /\ workers = <<>>
    /\ queue = {}
    /\ outstanding = 0
    /\ parCounters = <<>>
    /\ \/ \E m \in FileSizeInputs :
             calc = [op |-> "file_size", in |-> m, out |-> <<>>]
       \/ \E d \in ReadableSizeInputs :
             calc = [op |-> "readable_size", in |-> d, out |-> <<>>]

ApplyFileSize ==
    /\ calc.op = "file_size" /\ calc.out = <<>>
    /\ calc' = [calc EXCEPT !.out = <<file_size(calc.in)>>]
    /\ UNCHANGED <<fs, faults, args, directories, ri, pc, counter, dirs, reader,
                   entry, results, opened, reopened, yielded, reyielded,
                   parVars>>

ApplyReadableSize ==
    /\ calc.op = "readable_size" /\ calc.out = <<>>
    /\ calc' = [calc EXCEPT !.out = <<readable_size(calc.in)>>]
    /\ UNCHANGED <<fs, faults, args, directories, ri, pc, counter, dirs, reader,
                   entry, results, opened, reopened, yielded, reyielded,
                   parVars>>

NextPure ==
    \/ Next
    \/ ApplyFileSize
    \/ ApplyReadableSize

SpecPure == (Init \/ InitPure) /\ [][NextPure]_vars

(***************************************************************************)
(* The parallel walker: a pool of workers sharing one queue of Work Items, *)
(* one Counter per root, identities made of device and inode.  It is run   *)
(* on the roots once the sequential walk of them has finished.             *)
(***************************************************************************)
NoItem == [root |-> 0, path |-> <<>>]

\* Entry Classifier: the kind of the entry itself, links not followed
classify(path) ==
    IF lstat(path) = NoObj THEN "none" ELSE Obj(lstat(path)).kind

\* Counter.count of the parallel walker, size accounting requested
par_count(c, path) ==
    LET o == lstat(path)
    IN  IF classify(path) = "symlink" THEN [c EXCEPT !.n_files = @ + 1]
        ELSE IF classify(path) = "dir" THEN [c EXCEPT !.n_dirs = @ + 1]
        ELSE IF classify(path) = "file" /\ o \notin faults.nometa
        THEN IF <<Obj(o).dev, Obj(o).ino>> \notin c.inodes
             THEN [c EXCEPT !.n_files = @ + 1,
                            !.inodes = @ \cup {<<Obj(o).dev, Obj(o).ino>>},
                            !.size = @ + Obj(o).st_blksize
                                       * Ceil(Obj(o).st_size, Obj(o).st_blksize)]
             ELSE [c EXCEPT !.n_files = @ + 1]
        ELSE c

\* seed the queue with one Work Item per root
ParallelStart ==
    /\ pc = "done"
    /\ parPc = "off"
    /\ \E n \in 1 .. MaxWorkers :
          workers' = [w \in 1 .. n |-> [item |-> NoItem, items |-> {}]]
    /\ queue' = {[root |-> i, path |-> directories[i]] :
                    i \in 1 .. Len(directories)}
    /\ outstanding' = Len(directories)
    /\ parCounters' = [i \in 1 .. Len(directories) |-> Counter_new]
    /\ parPc' = "run"
    /\ UNCHANGED <<calc, fs, faults, args, directories, ri, pc, counter, dirs, reader,
                   entry, results, opened, reopened, yielded, reyielded>>

\* a worker takes a Work Item and opens its directory; a directory that
\* cannot be opened is skipped
WorkerDequeue(w) ==
    /\ parPc = "run"
    /\ workers[w].item = NoItem
    /\ \E it \in queue :
          LET rd == read_dir(it.path)
          IN  /\ queue' = queue \ {it}
              /\ IF rd.ok /\ ~rd.err
                 THEN /\ workers' = [workers EXCEPT
                                        ![w] = [item |-> it, items |-> rd.items]]
                      /\ outstanding' = outstanding
                 ELSE /\ workers' = workers
                      /\ outstanding' = outstanding - 1
    /\ UNCHANGED <<calc, fs, faults, args, directories, ri, pc, counter, dirs, reader,
                   entry, results, opened, reopened, yielded, reyielded,
                   parPc, parCounters>>

\* a worker counts one entry on its root's Counter, under that root's lock,
\* and queues the entry when it is a directory
WorkerVisit(w) ==
    /\ parPc = "run"
    /\ workers[w].item # NoItem
    /\ \E e \in workers[w].items :
          LET r == workers[w].item.root
          IN  /\ workers' = [workers EXCEPT ![w].items = @ \ {e}]
              /\ parCounters' = [parCounters EXCEPT ![r] = par_count(@, e)]
              /\ IF classify(e) = "dir"
                 THEN /\ queue' = queue \cup {[root |-> r, path |-> e]}
                      /\ outstanding' = outstanding + 1
                 ELSE UNCHANGED <<queue, outstanding>>
    /\ UNCHANGED <<calc, fs, faults, args, directories, ri, pc, counter, dirs, reader,
                   entry, results, opened, reopened, yielded, reyielded,
                   parPc>>

\* a worker has expanded its directory
WorkerRelease(w) ==
    /\ parPc = "run"
    /\ workers[w].item # NoItem
    /\ workers[w].items = {}
    /\ workers' = [workers EXCEPT ![w].item = NoItem]
    /\ outstanding' = outstanding - 1
    /\ UNCHANGED <<calc, fs, faults, args, directories, ri, pc, counter, dirs, reader,
                   entry, results, opened, reopened, yielded, reyielded,
                   parPc, queue, parCounters>>

\* no work is queued or held: the workers stop
ParallelEnd ==
    /\ parPc = "run"
    /\ outstanding = 0
    /\ parPc' = "done"
    /\ UNCHANGED <<calc, fs, faults, args, directories, ri, pc, counter, dirs, reader,
                   entry, results, opened, reopened, yielded, reyielded,
                   workers, queue, outstanding, parCounters>>

NextPar ==
    \/ Next
    \/ ParallelStart
    \/ \E w \in DOMAIN workers : WorkerDequeue(w)
    \/ \E w \in DOMAIN workers : WorkerVisit(w)
    \/ \E w \in DOMAIN workers : WorkerRelease(w)
    \/ ParallelEnd

\* the sequential walk of the roots followed by the parallel walk of them
SpecPar == Init /\ [][NextPar]_vars

(***************************************************************************)
(* What the tree holds, counted over the objects themselves.               *)
(***************************************************************************)
RECURSIVE SetSum(_, _)
SetSum(S, f) ==
    IF S = {} THEN 0
    ELSE LET x == CHOOSE y \in S : TRUE
         IN  f[x] + SetSum(S \ {x}, f)

\* file entries beneath directory d: regular files, every alias counted,
\* and symbolic links
RECURSIVE FilesBeneath(_)
FilesBeneath(d) ==
    SetSum(Obj(d).ents,
           [e \in Obj(d).ents |->
               IF Obj(e[2]).kind \in {"file", "symlink"} THEN 1
               ELSE IF Obj(e[2]).kind = "dir" THEN FilesBeneath(e[2])
               ELSE 0])

\* subdirectories beneath directory d, d itself excluded
RECURSIVE DirsBeneath(_)
DirsBeneath(d) ==
    SetSum(Obj(d).ents,
           [e \in Obj(d).ents |->
               IF Obj(e[2]).kind = "dir" THEN 1 + DirsBeneath(e[2]) ELSE 0])

NoIOFailure ==
    faults.noopen = {} /\ faults.noread = {} /\ faults.nometa = {}

FileObjects == {o \in Objects(fs) : Obj(o).kind = "file"}

\* the entry in hand is a regular file whose metadata can be read
RegularEntry ==
    entry # NoEntry /\ ~is_symlink(entry) /\ is_file(entry)
        /\ metadata(entry).ok

\* the entry in hand is a regular file whose metadata cannot be read
UnreadableEntry ==
    entry # NoEntry /\ ~is_symlink(entry) /\ is_file(entry)
        /\ ~metadata(entry).ok

(***************************************************************************)
(* C1: after the traversal of a root without I/O failure, n_files is the   *)
(* number of file entries beneath the root and n_dirs the number of        *)
(* subdirectories beneath it: every entry is counted exactly once.         *)
(***************************************************************************)
C1_EveryEntryCountedOnce ==
    (pc = "print" /\ NoIOFailure) =>
        /\ counter.n_files = FilesBeneath(stat(directories[ri]))
        /\ counter.n_dirs = DirsBeneath(stat(directories[ri]))

(***************************************************************************)
(* C2: during the traversal of a root no directory is opened more than     *)
(* once and no entry is yielded twice.                                     *)
(***************************************************************************)
C2_NoDirectoryVisitedTwice ==
    reopened = {} /\ reyielded = {}

(***************************************************************************)
(* C3: a symbolic link is never pushed on the pending stack and never      *)
(* opened, and nothing reached only through a link is yielded.             *)
(***************************************************************************)
ThroughLink(p) ==
    \E k \in (Len(directories[ri]) + 1) .. (Len(p) - 1) :
        is_symlink(SubSeq(p, 1, k))

\* C3: no link on the pending stack, none opened, nothing yielded through one
C3_SymlinkNeverFollowed ==
    pc \in {"next", "count", "print"} =>
        /\ \A i \in 1 .. Len(dirs) :
              dirs[i] = directories[ri] \/ ~is_symlink(dirs[i])
        /\ \A p \in opened : p = directories[ri] \/ ~is_symlink(p)
        /\ \A p \in yielded : ~ThroughLink(p)

(***************************************************************************)
(* C4: the traversal of a root ends: when no directory fails, next()       *)
(* returns end-of-sequence with the stack empty and the open directory     *)
(* exhausted, also when a link points to an ancestor of itself.            *)
(***************************************************************************)
C4_TraversalTerminates ==
    (pc = "next" /\ NoIOFailure)
        ~> (pc = "print" /\ dirs = <<>> /\ reader.items = {})

C4_Witness ==
    /\ pc = "print"
    /\ fs = "LinkToAncestor"
    /\ \E p \in yielded : Len(p) >= 3 /\ ThroughLink(p)

(***************************************************************************)
(* C5: a count call adds a regular file's storage size only when it        *)
(* inserts the file's identity into the seen set; an entry whose identity  *)
(* is already seen adds 1 to n_files and nothing to size; size is the sum  *)
(* of one storage size per identity of the seen set.                       *)
(***************************************************************************)
SizeIsSumOverSeen ==
    \E pick \in [counter.inodes -> FileObjects] :
        /\ \A i \in counter.inodes : Obj(pick[i]).ino = i
        /\ counter.size =
              SetSum(counter.inodes,
                     [i \in counter.inodes |->
                         Obj(pick[i]).st_blksize
                            * Ceil(Obj(pick[i]).st_size, Obj(pick[i]).st_blksize)])

SizeAddedOnFirstInsertOnly ==
    pc = "count" =>
        LET meta == metadata(entry)
        IN  /\ counter'.size # counter.size =>
                  /\ RegularEntry
                  /\ meta.st_ino \notin counter.inodes
                  /\ counter'.inodes = counter.inodes \cup {meta.st_ino}
                  /\ counter'.size = counter.size + file_size(meta)
            /\ (RegularEntry /\ meta.st_ino \notin counter.inodes) =>
                  /\ counter'.inodes = counter.inodes \cup {meta.st_ino}
                  /\ counter'.size = counter.size + file_size(meta)
            /\ (RegularEntry /\ meta.st_ino \in counter.inodes) =>
                  /\ counter'.n_files = counter.n_files + 1
                  /\ counter'.size = counter.size
                  /\ counter'.inodes = counter.inodes

\* C5: size is added once per identity of the seen set, by the inserting call
C5_SizeOncePerIdentity ==
    [](SizeIsSumOverSeen) /\ [][SizeAddedOnFirstInsertOnly]_vars

\* the second alias of a hard-linked file has been counted
C5_Witness ==
    /\ pc = "next"
    /\ RegularEntry
    /\ reyielded = {}
    /\ counter.n_files = 2
    /\ Cardinality(counter.inodes) = 1
    /\ counter.size = 4096

(***************************************************************************)
(* C6: a directory that cannot be opened or read fails its own root only:  *)
(* the process does not crash and every other root is still reported.      *)
(***************************************************************************)
\* the directories a walk from the objects of S can open
RECURSIVE ReachFrom(_)
ReachFrom(S) ==
    LET more == S \cup {o \in Objects(fs) :
                          /\ Obj(o).kind = "dir"
                          /\ \E d \in S : \E e \in Obj(d).ents :
                                Deref(e[2], 0)[1] = o}
    IN  IF more = S THEN S ELSE ReachFrom(more)

RootFails(i) ==
    ReachFrom({stat(directories[i])}) \cap (faults.noopen \cup faults.noread)
        # {}

\* C6: in a multi-root run no crash, and every root that does not fail is
\* reported
C6_FailureConfinedToRoot ==
    Len(directories) > 1 =>
        /\ pc # "panic"
        /\ pc = "done" =>
              \A i \in 1 .. Len(directories) :
                  IF RootFails(i)
                  THEN \A j \in 1 .. Len(results) :
                          results[j].root # directories[i]
                  ELSE \E j \in 1 .. Len(results) :
                          results[j].root = directories[i]

(***************************************************************************)
(* C7: a regular file whose metadata cannot be read leaves the Counter     *)
(* unchanged, and the entries after it are yielded and counted as usual.   *)
(***************************************************************************)
AfterUnreadable ==
    \E p \in yielded : lstat(p) \in faults.nometa

\* C7: an unreadable regular file changes nothing; later entries are counted
C7_MetadataErrorSkipsEntry ==
    [][pc = "count" =>
          /\ UnreadableEntry =>
                /\ counter' = counter
                /\ pc' = "next"
                /\ UNCHANGED <<dirs, reader>>
          /\ (AfterUnreadable /\ ~UnreadableEntry) =>
                /\ (is_symlink(entry) \/ is_file(entry)) =>
                      counter'.n_files = counter.n_files + 1
                /\ (~is_symlink(entry) /\ is_dir(entry)) =>
                      counter'.n_dirs = counter.n_dirs + 1
      ]_vars

\* an entry has been counted after an unreadable one was skipped
C7_Witness ==
    /\ pc = "next"
    /\ entry # NoEntry
    /\ ~UnreadableEntry
    /\ \E p \in yielded \ {entry} : lstat(p) \in faults.nometa
    /\ reyielded = {}
    /\ counter.n_files = 1

(***************************************************************************)
(* C8: counting a symbolic link adds 1 to n_files and changes nothing      *)
(* else of the Counter, whatever the link points to.                       *)
(***************************************************************************)
C8_SymlinkCountsOneFile ==
    [][(pc = "count" /\ is_symlink(entry)) =>
          counter' = [counter EXCEPT !.n_files = @ + 1]]_vars

\* links to a seen file, to an unseen file and to nothing have been counted
C8_Witness ==
    /\ fs = "LinkToFile"
    /\ pc = "next"
    /\ reyielded = {}
    /\ yielded = {<<"r", "f">>, <<"r", "lf">>, <<"r", "lo">>, <<"r", "lx">>}
    /\ is_symlink(entry)
    /\ counter = [n_files |-> 4, n_dirs |-> 0, size |-> 512, inodes |-> {2}]

(***************************************************************************)
(* C9: the sequential and the parallel traversal of the same root, with    *)
(* any number of workers, end with the same n_files, n_dirs and size.      *)
(***************************************************************************)
C9_SequentialEqualsParallel ==
    parPc = "done" =>
        \A i \in 1 .. Len(results) :
            /\ results[i].n_files = parCounters[i].n_files
            /\ results[i].n_dirs = parCounters[i].n_dirs
            /\ results[i].size = parCounters[i].size

(***************************************************************************)
(* C10: two complete traversals of the same unmodified tree yield the same *)
(* n_files, n_dirs and size, whatever the order of enumeration.            *)
(***************************************************************************)
C10_SameTreeSameCounter ==
    \A i, j \in 1 .. Len(results) :
        results[i].root = results[j].root => results[i] = results[j]

(***************************************************************************)
(* What the Walker yields for one root, computed from the tree: the        *)
(* entries of the directory at path and of every entry is_dir accepts.     *)
(***************************************************************************)
RECURSIVE WalkEntries(_)
WalkEntries(path) ==
    LET items == read_dir(path).items
    IN  items \cup UNION {WalkEntries(e) : e \in {x \in items : is_dir(x)}}

(***************************************************************************)
(* C11: every root is counted with its own Counter, created empty when the *)
(* root's traversal starts; the Counter printed for a root depends on that *)
(* root alone, whatever other roots are given and in whatever order, and   *)
(* is not changed afterwards; a file hard-linked under two roots adds its  *)
(* size to both.                                                           *)
(***************************************************************************)
CounterOfRootAlone ==
    (pc = "print" /\ NoIOFailure) =>
        LET W == WalkEntries(directories[ri])
            files == {p \in W : is_symlink(p) \/ is_file(p)}
            subdirs == {p \in W : ~is_symlink(p) /\ is_dir(p)}
            regular == {p \in W : ~is_symlink(p) /\ is_file(p)}
        IN  /\ counter.n_files = 2 * Cardinality(files)
            /\ counter.n_dirs = 2 * Cardinality(subdirs)
            /\ counter.inodes = {metadata(p).st_ino : p \in regular}
            /\ SizeIsSumOverSeen

C11_OneCounterPerRoot ==
    /\ [](CounterOfRootAlone)
    /\ [][pc = "new" => counter' = Counter_new]_vars
    /\ [][\A j \in 1 .. Len(results) : results'[j] = results[j]]_vars

\* both roots holding a name of the same file have been printed with its size
C11_Witness ==
    /\ fs = "HardLinks"
    /\ pc = "done"
    /\ Len(results) = 2
    /\ results[1].root # results[2].root
    /\ results[1].size = 4096
    /\ results[2].size = 4096

(***************************************************************************)
(* C12: when size is not requested (count_size unset), counting a regular  *)
(* file inserts nothing into the seen set and size stays 0.                *)
(***************************************************************************)
C12_SizeGatedByFlag ==
    ~args.count_size => (counter.inodes = {} /\ counter.size = 0)

(***************************************************************************)
(* C13: regular files beneath one root that are different storage objects  *)
(* each add their own storage size, also when they carry the same inode    *)
(* number on different devices.                                            *)
(***************************************************************************)
C13_DistinctObjectsDistinctIdentity ==
    (pc = "print" /\ NoIOFailure) =>
        LET objs == {lstat(p) : p \in {x \in yielded :
                                          ~is_symlink(x) /\ is_file(x)}}
        IN  counter.size =
               SetSum(objs, [o \in objs |->
                                Obj(o).st_blksize
                                   * Ceil(Obj(o).st_size, Obj(o).st_blksize)])

(***************************************************************************)
(* C14: with all_files unset an entry whose name begins with a dot adds    *)
(* nothing to n_files, n_dirs or size; with all_files set it is counted    *)
(* like any other entry.                                                   *)
(***************************************************************************)
HiddenNames == {".h", ".hd"}
HiddenEntry == entry # NoEntry /\ entry[Len(entry)] \in HiddenNames

C14_HiddenGatedByAllFiles ==
    [][(pc = "count" /\ HiddenEntry) =>
          IF args.all_files
          THEN \/ counter'.n_files = counter.n_files + 1
               \/ counter'.n_dirs = counter.n_dirs + 1
          ELSE /\ counter'.n_files = counter.n_files
               /\ counter'.n_dirs = counter.n_dirs
               /\ counter'.size = counter.size
      ]_vars

(***************************************************************************)
(* C15: for a logical size s >= 0 and a block size b > 0 file_size is the  *)
(* least multiple of b that is >= s, and counting a directory or a         *)
(* symbolic link never changes size.                                       *)
(***************************************************************************)
LeastMultiple(out, s, b) ==
    out % b = 0 /\ out >= s /\ out - b < s

C15_FileSizeRoundsUpToBlock ==
    /\ []((calc.op = "file_size" /\ calc.out # <<>>) =>
             LeastMultiple(calc.out[1], calc.in.st_size, calc.in.st_blksize))
    /\ [][(pc = "count" /\ (is_symlink(entry) \/ ~is_file(entry))) =>
             counter'.size = counter.size]_vars

\* 5000 bytes in blocks of 4096 make 8192
C15_Witness ==
    /\ calc.op = "file_size"
    /\ calc.in = [st_size |-> 5000, st_blksize |-> 4096]
    /\ calc.out = <<8192>>

(***************************************************************************)
(* C16: for every u64 size readable_size selects exactly one of the seven  *)
(* units, the one whose index is the number of divisions by 1024 that      *)
(* bring the value below 1024, and never returns the empty string.         *)
(***************************************************************************)
\* divisions by 1024 that bring the number with digits d below 1024
Divisions(d) ==
    LET S == {k \in 1 .. Len(d) : d[k] # 0}
    IN  IF S = {} THEN 0 ELSE (CHOOSE k \in S : \A j \in S : j <= k) - 1

UnitNames == {"B", "K", "M", "G", "T", "P", "E"}
UnitOf(n) ==
    CASE n = 0 -> "B" [] n = 1 -> "K" [] n = 2 -> "M" [] n = 3 -> "G"
      [] n = 4 -> "T" [] n = 5 -> "P" [] n = 6 -> "E"

\* C16 as stated: the unit is that of the u64 value's own division count
C16_UnitIsDivisionCount ==
    (calc.op = "readable_size" /\ calc.out # <<>>) =>
        /\ calc.out[1] # EmptyString
        /\ calc.out[1].unit = UnitOf(Divisions(calc.in))

\* 2^60 - 64 .. 2^60 - 1: the sizes that "as f64" rounds up to 2^60
RoundsToNextUnit(d) ==
    /\ d[1] >= 960
    /\ \A k \in 2 .. 6 : d[k] = 1023
    /\ d[7] = 0

\* C16 amended: the division count is that of the size rounded to f64, the
\* value's own except for 2^60 - 64 .. 2^60 - 1, which are shown in E
C16_UnitIsDivisionCountOfF64 ==
    (calc.op = "readable_size" /\ calc.out # <<>>) =>
        /\ calc.out[1] # EmptyString
        /\ calc.out[1].unit \in UnitNames
        /\ calc.out[1].unit =
              IF RoundsToNextUnit(calc.in) THEN "E"
              ELSE UnitOf(Divisions(calc.in))
        /\ calc.out[1].whole < 1024

\* 2^64 - 1 is shown as 16E
C16_Witness ==
    /\ calc.op = "readable_size"
    /\ calc.in = <<1023, 1023, 1023, 1023, 1023, 1023, 15>>
    /\ calc.out = <<[whole |-> 16, frac |-> <<0, 0, 0, 0, 0, 0>>, unit |-> "E"]>>

(***************************************************************************)
(* C17: when no directory fails to open or read, every entry at any depth  *)
(* beneath the root is yielded before the sequence ends; every directory   *)
(* pushed on the pending stack is eventually popped and enumerated; and a  *)
(* subdirectory's own entry is yielded before any entry inside it.         *)
(***************************************************************************)
NoDirFailure == faults.noopen = {} /\ faults.noread = {}

\* the entries beneath the directory at path, links not followed
RECURSIVE TreeEntries(_)
TreeEntries(path) ==
    LET items == {Append(path, e[1]) : e \in Obj(lstat(path)).ents}
    IN  items \cup UNION {TreeEntries(x) :
                             x \in {y \in items : Obj(lstat(y)).kind = "dir"}}

EveryEntryYielded ==
    (pc = "print" /\ NoDirFailure) =>
        TreeEntries(directories[ri]) \subseteq yielded

ParentYieldedFirst ==
    pc \in {"next", "count", "print"} =>
        \A p \in yielded :
            Len(p) > Len(directories[ri]) + 1 =>
                SubSeq(p, 1, Len(p) - 1) \in yielded

\* the stack changes by a push of the entry yielded or by a pop of its top,
\* and the directory popped is the one that is opened and enumerated
StackPushedAndPopped ==
    (pc = "next" /\ pc' \in {"next", "count", "print"}) =>
        \/ dirs' = dirs
        \/ dirs' = Append(dirs, entry') /\ entry' \in yielded' /\ is_dir(entry')
        \/ /\ dirs # <<>>
           /\ dirs' = SubSeq(dirs, 1, Len(dirs) - 1)
           /\ dirs[Len(dirs)] \in opened'
           /\ reader' = read_dir(dirs[Len(dirs)])

C17_EveryEntryYielded ==
    /\ [](EveryEntryYielded /\ ParentYieldedFirst)
    /\ [][StackPushedAndPopped]_vars
    /\ (dirs # <<>> /\ NoDirFailure) ~> (dirs = <<>> /\ pc = "print")

\* the file three directories deep has been yielded and the walk has ended
C17_Witness ==
    /\ fs = "Nested"
    /\ pc = "print"
    /\ directories[ri] = <<"r">>
    /\ <<"r", "d", "e", "g">> \in yielded
    /\ dirs = <<>>

=============================================================================
